---- MODULE Spec2Model ----
(***************************************************************************)
(* The fetch-decode-execute loop of `evm` (src/src/lib.rs): a bytecode     *)
(* cursor, an if-chain opcode dispatcher and a stack of fixed-width words. *)
(*                                                                         *)
(* U256 is modelled as a natural number below 2^WordBits.  The code's      *)
(* width-dependent literals scale with it: 32 bytes = WordBytes, 256 bits  *)
(* = WordBits, bit 255 = bit WordBits-1, U256::MAX = MaxWord.  Every U256  *)
(* operation drops the bits above the width exactly as the library does.   *)
(* The bytecode stays a sequence of 8-bit bytes and opcodes keep their     *)
(* values.  One step of the model is one iteration of the while loop.      *)
(***************************************************************************)
EXTENDS Integers, Sequences, FiniteSets, TLC

VARIABLES
    code,       \* the bytecode, fixed for the run         (lib.rs:33)
    pc,         \* index of the next byte to fetch          (lib.rs:27)
    stack,      \* Vec<U256>, index 0 (here 1) is the top   (lib.rs:26)
    stop_flag,  \* set by STOP                              (lib.rs:28)
    opcode,     \* the byte fetched by the current iteration, -1 before the first
    popped,     \* the words the current handler removed, in the order of its remove calls
    status,     \* "running", "returned" (EvmResult built) or "panicked" (Vec::remove aborted)
    result      \* <<>> until the function returns, then << EvmResult >>

vars == <<code, pc, stack, stop_flag, opcode, popped, status, result>>

----------------------------------------------------------------------------
(* Widths *)

\* bytes of a word (32 for U256)
WordBytes == 2

\* bits of a byte: the shift of `value <<= 8`
ByteBits == 8

WordBits == ByteBits * WordBytes

\* 2^WordBits: words are 0 .. Modulus-1
Modulus == 2 ^ WordBits

\* U256::MAX, also !U256::zero()
MaxWord == Modulus - 1

\* U256::from(1) << 255
min_value == 2 ^ (WordBits - 1)

ByteBase == 2 ^ ByteBits

----------------------------------------------------------------------------
(* Vec<U256> *)

\* Vec::remove(i), i counted from 0; the caller checks i < len (else the code panics)
VecRemove(v, i) == [j \in 1..(Len(v) - 1) |-> IF j <= i THEN v[j] ELSE v[j + 1]]

\* Vec::insert(i, x), i counted from 0
VecInsert(v, i, x) == SubSeq(v, 1, i) \o <<x>> \o SubSeq(v, i + 1, Len(v))

\* Vec::remove(i) panics when i >= len
RemovePanics(v, i) == i >= Len(v)

----------------------------------------------------------------------------
(* U256 arithmetic *)

\* a.overflowing_add(b).0
overflowing_add(a, b) == (a + b) % Modulus

\* a.overflowing_sub(b).0
overflowing_sub(a, b) == (a - b) % Modulus

\* exact a * b reduced modulo n, n > 0: b is taken four bits at a time from its
\* high end, so that no intermediate exceeds 32 n
RECURSIVE MulModExact(_, _, _)
MulModExact(a, b, n) ==
    IF b = 0 THEN 0
    ELSE (MulModExact(a, b \div 16, n) * 16 + (b % 16) * (a % n)) % n

\* a.overflowing_mul(b).0: the low WordBits bits of a * b, from half-word
\* partial products (the product of the two high halves lies above the width)
overflowing_mul(a, b) ==
    LET half == 2 ^ (WordBits \div 2)
        a_lo == a % half
        a_hi == a \div half
        b_lo == b % half
        b_hi == b \div half
    IN  (((a_hi * b_lo + a_lo * b_hi) % half) * half + a_lo * b_lo) % Modulus

\* !a
BitNot(a) == MaxWord - a

\* (!x).overflowing_add(U256::from(1)).0
Negate(x) == overflowing_add(BitNot(x), 1)

\* value << n for 0 <= n <= WordBits: the bits shifted out are dropped
Shl(value, n) == (value % (2 ^ (WordBits - n))) * (2 ^ n)

\* value >> n for 0 <= n <= WordBits
Shr(value, n) == value \div (2 ^ n)

\* (x >> 255) == U256::from(1)
IsNegative(x) == Shr(x, WordBits - 1) = 1

RECURSIVE BitOp(_, _, _, _)
\* bitwise combination of the low `bits` bits of a and b; op is "and", "or" or "xor".
\* The width is halved at each level.
BitOp(op, a, b, bits) ==
    IF bits = 1
    THEN CASE op = "and" -> IF a = 1 /\ b = 1 THEN 1 ELSE 0
           [] op = "or"  -> IF a = 1 \/ b = 1 THEN 1 ELSE 0
           [] op = "xor" -> IF a # b THEN 1 ELSE 0
    ELSE LET lo == bits \div 2
             half == 2 ^ lo
         IN  BitOp(op, a % half, b % half, lo)
                 + half * BitOp(op, a \div half, b \div half, bits - lo)

BitAnd(a, b) == BitOp("and", a, b, WordBits)
BitOr(a, b) == BitOp("or", a, b, WordBits)
BitXor(a, b) == BitOp("xor", a, b, WordBits)

\* p with the square of its last element appended
AppendSquare(p) == Append(p, overflowing_mul(p[Len(p)], p[Len(p)]))

\* <<x, x^2, x^4, x^8, x^16>> by repeated squaring
Squarings(x) == AppendSquare(AppendSquare(AppendSquare(AppendSquare(<<x>>))))

\* the product of those of x, x^2, x^4, x^8 (p[1..4]) whose bit is set in r, 0 <= r <= 15
PowNibble(p, r) ==
    LET Pick(i) == IF (r \div (2 ^ (i - 1))) % 2 = 1 THEN p[i] ELSE 1
    IN  overflowing_mul(overflowing_mul(Pick(1), Pick(2)),
                        overflowing_mul(Pick(3), Pick(4)))

RECURSIVE PowLoop(_)
\* exponentiation by squaring over <<x, y, n>>: x the running power of the base,
\* y the product so far, n the exponent still to consume, four bits a round
PowLoop(xyn) ==
    IF xyn[3] = 0 THEN xyn[2]
    ELSE LET p == Squarings(xyn[1])
         IN  PowLoop(<<p[5], overflowing_mul(xyn[2], PowNibble(p, xyn[3] % 16)), xyn[3] \div 16>>)

\* self.overflowing_pow(expon).0: self^expon with the bits above the width dropped
overflowing_pow(base, expon) == PowLoop(<<base, 1, expon>>)

----------------------------------------------------------------------------
(* Byte conversions *)

RECURSIVE FromBytes(_)
\* big-endian value of a byte sequence (U256::from_big_endian, BigUint::from_bytes_be)
FromBytes(bytes) ==
    IF Len(bytes) = 0 THEN 0
    ELSE FromBytes(SubSeq(bytes, 1, Len(bytes) - 1)) * ByteBase + bytes[Len(bytes)]

\* U256::to_big_endian: exactly WordBytes bytes, most significant first
to_big_endian(w) ==
    [i \in 1..WordBytes |-> (w \div (ByteBase ^ (WordBytes - i))) % ByteBase]

RECURSIVE to_bytes_be(_)
\* BigUint::to_bytes_be: no leading zero bytes; zero is the single byte 0
to_bytes_be(x) ==
    IF x < ByteBase THEN <<x>>
    ELSE Append(to_bytes_be(x \div ByteBase), x % ByteBase)

----------------------------------------------------------------------------
(* The value each handler pushes, from the words it removed.  Parameters    *)
(* carry the names of the handler's locals, in the order of its remove      *)
(* calls: for a binary handler the first parameter is the word that was     *)
(* second from the top (remove(1)) and the second the word on top.          *)

\* PUSH1..PUSH32: the loop over the immediate, from index i on; `at` is pc after
\* the fetch.  `value <<= 8` leaves the low byte zero, so `value | byte` adds the
\* byte.  Once at + i reaches the end of the code no later iteration changes
\* value, so the loop's result is the value reached there.
RECURSIVE PushLoop(_, _, _, _, _)
PushLoop(bytes, at, byte_amount, i, value) ==
    IF i >= byte_amount \/ at + i >= Len(bytes) THEN value
    ELSE PushLoop(bytes, at, byte_amount, i + 1,
                  Shl(value, ByteBits) + bytes[at + i + 1])

PushValue(bytes, at, byte_amount) == PushLoop(bytes, at, byte_amount, 0, 0)

\* a PUSH that steps one byte further than its immediate; C4 tells it from PushAdvance
PushAdvanceOneMore(at, byte_amount) == at + byte_amount + 1

\* pc after a PUSH with byte_amount > 0
PushAdvance(at, byte_amount) == at + byte_amount

AddResult(a, b) == overflowing_add(a, b)

MulResult(a, b) == overflowing_mul(a, b)

\* SUB with its operands the other way round; C6 tells it from SubResult
SubResultSwapped(a, b) == overflowing_sub(a, b)

SubResult(a, b) == overflowing_sub(b, a)

DivResult(a, b) == IF a = 0 THEN 0 ELSE b \div a

\* MOD that hands the dividend back for divisor 0; C9 tells it from ModResult
ModResultKeepsDividend(a, b) == IF a = 0 THEN b ELSE b % a

ModResult(a, b) == IF a = 0 THEN 0 ELSE b % a

AddmodResult(n, a, b) == IF n = 0 THEN 0 ELSE overflowing_add(a, b) % n

\* (a_big * b_big) % n_big on BigUint: no width, nothing is dropped
BigMulMod(a_big, b_big, n_big) == MulModExact(a_big, b_big, n_big)

\* MULMOD written like ADDMOD, on the product kept to the word; C7 tells it from MulmodResult
MulmodResultTruncating(n, a, b) == IF n = 0 THEN 0 ELSE overflowing_mul(a, b) % n

MulmodResult(n, a, b) ==
    IF n = 0 THEN 0
    ELSE LET a_big == FromBytes(to_big_endian(a))
             b_big == FromBytes(to_big_endian(b))
             n_big == FromBytes(to_big_endian(n))
             result_big == BigMulMod(a_big, b_big, n_big)
             result_bytes == to_bytes_be(result_big)
             result_array ==
                 IF Len(result_bytes) <= WordBytes
                 THEN [i \in 1..(WordBytes - Len(result_bytes)) |-> 0] \o result_bytes
                 ELSE [i \in 1..WordBytes |-> 0]
         IN  FromBytes(result_array)

ExpResult(a, b) == overflowing_pow(b, a)

SignextendResult(byte_pos, value) ==
    IF byte_pos >= WordBytes THEN value
    ELSE LET bytes == to_big_endian(value)
             sign_bit == BitAnd(bytes[WordBytes - byte_pos], 2 ^ (ByteBits - 1)) # 0
             filled == [i \in 1..WordBytes |->
                          IF i <= WordBytes - 1 - byte_pos
                          THEN (IF sign_bit THEN ByteBase - 1 ELSE 0)
                          ELSE bytes[i]]
         IN  FromBytes(filled)

\* SDIV whose sign follows the numerator alone; C8 tells it from SdivResult
SdivResultSignOfNumerator(denominator, numerator) ==
    IF denominator = 0 THEN 0
    ELSE LET numerator_negative == IsNegative(numerator)
             denominator_negative == IsNegative(denominator)
             abs_numerator == IF numerator_negative THEN Negate(numerator) ELSE numerator
             abs_denominator == IF denominator_negative THEN Negate(denominator) ELSE denominator
             quotient == abs_numerator \div abs_denominator
         IN  IF numerator_negative THEN Negate(quotient) ELSE quotient

SdivResult(denominator, numerator) ==
    IF denominator = 0 THEN 0
    ELSE LET is_numerator_min == numerator = min_value
             numerator_negative == IsNegative(numerator)
             denominator_negative == IsNegative(denominator)
             abs_numerator == IF numerator_negative THEN Negate(numerator) ELSE numerator
             abs_denominator == IF denominator_negative THEN Negate(denominator) ELSE denominator
             quotient == abs_numerator \div abs_denominator
         IN  IF is_numerator_min /\ denominator = MaxWord THEN min_value
             ELSE IF numerator_negative # denominator_negative THEN Negate(quotient)
             ELSE quotient

SmodResult(denominator, numerator) ==
    IF denominator = 0 THEN 0
    ELSE LET numerator_negative == IsNegative(numerator)
             denominator_negative == IsNegative(denominator)
             abs_numerator == IF numerator_negative THEN Negate(numerator) ELSE numerator
             abs_denominator == IF denominator_negative THEN Negate(denominator) ELSE denominator
             remainder == abs_numerator % abs_denominator
         IN  IF numerator_negative /\ remainder # 0 THEN Negate(remainder) ELSE remainder

LtResult(right_side, left_side) == IF left_side < right_side THEN 1 ELSE 0

GtResult(right_side, left_side) == IF left_side > right_side THEN 1 ELSE 0

SltResult(right_side, left_side) ==
    LET left_negative == IsNegative(left_side)
        right_negative == IsNegative(right_side)
        abs_left == IF left_negative THEN Negate(left_side) ELSE left_side
        abs_right == IF right_negative THEN Negate(right_side) ELSE right_side
    IN  IF left_negative = right_negative
        THEN (IF left_negative
              THEN (IF abs_right < abs_left THEN 1 ELSE 0)
              ELSE (IF abs_left < abs_right THEN 1 ELSE 0))
        ELSE (IF left_negative THEN 1 ELSE 0)

SgtResult(right_side, left_side) ==
    LET left_negative == IsNegative(left_side)
        right_negative == IsNegative(right_side)
        abs_left == IF left_negative THEN Negate(left_side) ELSE left_side
        abs_right == IF right_negative THEN Negate(right_side) ELSE right_side
    IN  IF left_negative = right_negative
        THEN (IF left_negative
              THEN (IF abs_right > abs_left THEN 1 ELSE 0)
              ELSE (IF abs_left > abs_right THEN 1 ELSE 0))
        ELSE (IF ~left_negative THEN 1 ELSE 0)

EqResult(right_side, left_side) == IF right_side = left_side THEN 1 ELSE 0

IszeroResult(a) == IF a = 0 THEN 1 ELSE 0

NotResult(a) == BitNot(a)

AndResult(a, b) == BitAnd(b, a)

OrResult(a, b) == BitOr(b, a)

XorResult(a, b) == BitXor(b, a)

ShlResult(value, shift) == IF shift > WordBits - 1 THEN 0 ELSE Shl(value, shift)

ShrResult(value, shift) == IF shift > WordBits - 1 THEN 0 ELSE Shr(value, shift)

SarResult(value, shift) ==
    LET value_negative == IsNegative(value)
    IN  IF shift > WordBits - 1
        THEN (IF value_negative THEN MaxWord ELSE 0)
        ELSE LET shifted == Shr(value, shift)
                 mask == Shl(BitNot(0), WordBits - shift)
             IN  IF value_negative THEN BitOr(shifted, mask) ELSE shifted

----------------------------------------------------------------------------
(* The loop *)

\* a loop guard that does not look at stop_flag; C5 tells it from LoopGuard
LoopGuardIgnoringStop == pc < Len(code)

\* while pc < code.len() && !stop_flag
LoopGuard == pc < Len(code) /\ ~stop_flag

\* a PUSH range that takes 0x80 as well; C10 tells it from PushRange
PushRangeOneMore == \h5F..\h80

\* the opcodes of the PUSH handler: (0x5F..=0x7F).contains(&opcode)
PushRange == \h5F..\h7F

\* the opcodes some `if` of the chain tests for
Handled ==
    {\h00} \cup PushRange \cup {\h50} \cup (\h01..\h0B) \cup (\h10..\h19) \cup (\h1B..\h1D)

\* let opcode = code[pc]; pc += 1 -- for an iteration whose opcode is op
Fetch(op) ==
    /\ status = "running"
    /\ LoopGuard
    /\ code[pc + 1] = op
    /\ opcode' = op
    /\ UNCHANGED <<code, result>>

\* the handler ran to its end: the next thing is the loop guard
Continue(new_pc, new_stack, removed) ==
    /\ pc' = new_pc
    /\ stack' = new_stack
    /\ popped' = removed
    /\ status' = "running"
    /\ UNCHANGED stop_flag

\* a Vec::remove index was out of bounds: the thread panics inside the handler
Panic(stack_then, removed) ==
    /\ pc' = pc + 1
    /\ stack' = stack_then
    /\ popped' = removed
    /\ status' = "panicked"
    /\ UNCHANGED stop_flag

\* STOP
STOP ==
    /\ Fetch(\h00)
    /\ stop_flag' = TRUE
    /\ pc' = pc + 1
    /\ popped' = <<>>
    /\ UNCHANGED <<stack, status>>

\* PUSH0..PUSH32
PUSH ==
    \E op \in PushRange :
        /\ Fetch(op)
        /\ LET byte_amount == op - \h5F
           IN  IF byte_amount > 0
               THEN Continue(PushAdvance(pc + 1, byte_amount),
                             VecInsert(stack, 0, PushValue(code, pc + 1, byte_amount)),
                             <<>>)
               ELSE Continue(pc + 1, VecInsert(stack, 0, 0), <<>>)

\* POP
POP ==
    /\ Fetch(\h50)
    /\ IF RemovePanics(stack, 0) THEN Panic(stack, <<>>)
       ELSE Continue(pc + 1, VecRemove(stack, 0), <<stack[1]>>)

\* ADD
ADD ==
    /\ Fetch(\h01)
    /\ IF RemovePanics(stack, 1) THEN Panic(stack, <<>>)
       ELSE LET a == stack[2]
                s1 == VecRemove(stack, 1)
                b == s1[1]
                s2 == VecRemove(s1, 0)
            IN  Continue(pc + 1, VecInsert(s2, 0, AddResult(a, b)), <<a, b>>)

\* MUL
MUL ==
    /\ Fetch(\h02)
    /\ IF RemovePanics(stack, 1) THEN Panic(stack, <<>>)
       ELSE LET a == stack[2]
                s1 == VecRemove(stack, 1)
                b == s1[1]
                s2 == VecRemove(s1, 0)
            IN  Continue(pc + 1, VecInsert(s2, 0, MulResult(a, b)), <<a, b>>)

\* SUB
SUB ==
    /\ Fetch(\h03)
    /\ IF RemovePanics(stack, 1) THEN Panic(stack, <<>>)
       ELSE LET a == stack[2]
                s1 == VecRemove(stack, 1)
                b == s1[1]
                s2 == VecRemove(s1, 0)
            IN  Continue(pc + 1, VecInsert(s2, 0, SubResult(a, b)), <<a, b>>)

\* DIV
DIV ==
    /\ Fetch(\h04)
    /\ IF RemovePanics(stack, 1) THEN Panic(stack, <<>>)
       ELSE LET a == stack[2]
                s1 == VecRemove(stack, 1)
                b == s1[1]
                s2 == VecRemove(s1, 0)
            IN  Continue(pc + 1, VecInsert(s2, 0, DivResult(a, b)), <<a, b>>)

\* MOD
MOD ==
    /\ Fetch(\h06)
    /\ IF RemovePanics(stack, 1) THEN Panic(stack, <<>>)
       ELSE LET a == stack[2]
                s1 == VecRemove(stack, 1)
                b == s1[1]
                s2 == VecRemove(s1, 0)
            IN  Continue(pc + 1, VecInsert(s2, 0, ModResult(a, b)), <<a, b>>)

\* ADDMOD
ADDMOD ==
    /\ Fetch(\h08)
    /\ IF RemovePanics(stack, 2) THEN Panic(stack, <<>>)
       ELSE LET n == stack[3]
                s1 == VecRemove(stack, 2)
                a == s1[2]
                s2 == VecRemove(s1, 1)
                b == s2[1]
                s3 == VecRemove(s2, 0)
            IN  Continue(pc + 1, VecInsert(s3, 0, AddmodResult(n, a, b)), <<n, a, b>>)

\* MULMOD
MULMOD ==
    /\ Fetch(\h09)
    /\ IF RemovePanics(stack, 2) THEN Panic(stack, <<>>)
       ELSE LET n == stack[3]
                s1 == VecRemove(stack, 2)
                a == s1[2]
                s2 == VecRemove(s1, 1)
                b == s2[1]
                s3 == VecRemove(s2, 0)
            IN  Continue(pc + 1, VecInsert(s3, 0, MulmodResult(n, a, b)), <<n, a, b>>)

\* EXP
EXP ==
    /\ Fetch(\h0A)
    /\ IF RemovePanics(stack, 1) THEN Panic(stack, <<>>)
       ELSE LET a == stack[2]
                s1 == VecRemove(stack, 1)
                b == s1[1]
                s2 == VecRemove(s1, 0)
            IN  Continue(pc + 1, VecInsert(s2, 0, ExpResult(a, b)), <<a, b>>)

\* SIGEXTEND: both operands are taken with remove(0)
SIGEXTEND ==
    /\ Fetch(\h0B)
    /\ IF RemovePanics(stack, 0) THEN Panic(stack, <<>>)
       ELSE LET byte_pos == stack[1]
                s1 == VecRemove(stack, 0)
            IN  IF RemovePanics(s1, 0) THEN Panic(s1, <<byte_pos>>)
                ELSE LET value == s1[1]
                         s2 == VecRemove(s1, 0)
                     IN  Continue(pc + 1,
                                  VecInsert(s2, 0, SignextendResult(byte_pos, value)),
                                  <<byte_pos, value>>)

\* SDIV
SDIV ==
    /\ Fetch(\h05)
    /\ IF RemovePanics(stack, 1) THEN Panic(stack, <<>>)
       ELSE LET denominator == stack[2]
                s1 == VecRemove(stack, 1)
                numerator == s1[1]
                s2 == VecRemove(s1, 0)
            IN  Continue(pc + 1, VecInsert(s2, 0, SdivResult(denominator, numerator)), <<denominator, numerator>>)

\* SMOD
SMOD ==
    /\ Fetch(\h07)
    /\ IF RemovePanics(stack, 1) THEN Panic(stack, <<>>)
       ELSE LET denominator == stack[2]
                s1 == VecRemove(stack, 1)
                numerator == s1[1]
                s2 == VecRemove(s1, 0)
            IN  Continue(pc + 1, VecInsert(s2, 0, SmodResult(denominator, numerator)), <<denominator, numerator>>)

\* LT
LT ==
    /\ Fetch(\h10)
    /\ IF RemovePanics(stack, 1) THEN Panic(stack, <<>>)
       ELSE LET right_side == stack[2]
                s1 == VecRemove(stack, 1)
                left_side == s1[1]
                s2 == VecRemove(s1, 0)
            IN  Continue(pc + 1, VecInsert(s2, 0, LtResult(right_side, left_side)), <<right_side, left_side>>)

\* GT
GT ==
    /\ Fetch(\h11)
    /\ IF RemovePanics(stack, 1) THEN Panic(stack, <<>>)
       ELSE LET right_side == stack[2]
                s1 == VecRemove(stack, 1)
                left_side == s1[1]
                s2 == VecRemove(s1, 0)
            IN  Continue(pc + 1, VecInsert(s2, 0, GtResult(right_side, left_side)), <<right_side, left_side>>)

\* SLT
SLT ==
    /\ Fetch(\h12)
    /\ IF RemovePanics(stack, 1) THEN Panic(stack, <<>>)
       ELSE LET right_side == stack[2]
                s1 == VecRemove(stack, 1)
                left_side == s1[1]
                s2 == VecRemove(s1, 0)
            IN  Continue(pc + 1, VecInsert(s2, 0, SltResult(right_side, left_side)), <<right_side, left_side>>)

\* the second handler commented SLT (opcode 0x13, SGT)
SGT ==
    /\ Fetch(\h13)
    /\ IF RemovePanics(stack, 1) THEN Panic(stack, <<>>)
       ELSE LET right_side == stack[2]
                s1 == VecRemove(stack, 1)
                left_side == s1[1]
                s2 == VecRemove(s1, 0)
            IN  Continue(pc + 1, VecInsert(s2, 0, SgtResult(right_side, left_side)), <<right_side, left_side>>)

\* EQ
EQ ==
    /\ Fetch(\h14)
    /\ IF RemovePanics(stack, 1) THEN Panic(stack, <<>>)
       ELSE LET right_side == stack[2]
                s1 == VecRemove(stack, 1)
                left_side == s1[1]
                s2 == VecRemove(s1, 0)
            IN  Continue(pc + 1, VecInsert(s2, 0, EqResult(right_side, left_side)), <<right_side, left_side>>)

\* ISZERO
ISZERO ==
    /\ Fetch(\h15)
    /\ IF RemovePanics(stack, 0) THEN Panic(stack, <<>>)
       ELSE LET a == stack[1]
                s1 == VecRemove(stack, 0)
            IN  Continue(pc + 1, VecInsert(s1, 0, IszeroResult(a)), <<a>>)

\* NOT
NOT ==
    /\ Fetch(\h19)
    /\ IF RemovePanics(stack, 0) THEN Panic(stack, <<>>)
       ELSE LET a == stack[1]
                s1 == VecRemove(stack, 0)
            IN  Continue(pc + 1, VecInsert(s1, 0, NotResult(a)), <<a>>)

\* AND
AND ==
    /\ Fetch(\h16)
    /\ IF RemovePanics(stack, 1) THEN Panic(stack, <<>>)
       ELSE LET a == stack[2]
                s1 == VecRemove(stack, 1)
                b == s1[1]
                s2 == VecRemove(s1, 0)
            IN  Continue(pc + 1, VecInsert(s2, 0, AndResult(a, b)), <<a, b>>)

\* OR
OR ==
    /\ Fetch(\h17)
    /\ IF RemovePanics(stack, 1) THEN Panic(stack, <<>>)
       ELSE LET a == stack[2]
                s1 == VecRemove(stack, 1)
                b == s1[1]
                s2 == VecRemove(s1, 0)
            IN  Continue(pc + 1, VecInsert(s2, 0, OrResult(a, b)), <<a, b>>)

\* XOR
XOR ==
    /\ Fetch(\h18)
    /\ IF RemovePanics(stack, 1) THEN Panic(stack, <<>>)
       ELSE LET a == stack[2]
                s1 == VecRemove(stack, 1)
                b == s1[1]
                s2 == VecRemove(s1, 0)
            IN  Continue(pc + 1, VecInsert(s2, 0, XorResult(a, b)), <<a, b>>)

\* SHL
SHL ==
    /\ Fetch(\h1B)
    /\ IF RemovePanics(stack, 1) THEN Panic(stack, <<>>)
       ELSE LET value == stack[2]
                s1 == VecRemove(stack, 1)
                shift == s1[1]
                s2 == VecRemove(s1, 0)
            IN  Continue(pc + 1, VecInsert(s2, 0, ShlResult(value, shift)), <<value, shift>>)

\* SHR
SHR ==
    /\ Fetch(\h1C)
    /\ IF RemovePanics(stack, 1) THEN Panic(stack, <<>>)
       ELSE LET value == stack[2]
                s1 == VecRemove(stack, 1)
                shift == s1[1]
                s2 == VecRemove(s1, 0)
            IN  Continue(pc + 1, VecInsert(s2, 0, ShrResult(value, shift)), <<value, shift>>)

\* SAR
SAR ==
    /\ Fetch(\h1D)
    /\ IF RemovePanics(stack, 1) THEN Panic(stack, <<>>)
       ELSE LET value == stack[2]
                s1 == VecRemove(stack, 1)
                shift == s1[1]
                s2 == VecRemove(s1, 0)
            IN  Continue(pc + 1, VecInsert(s2, 0, SarResult(value, shift)), <<value, shift>>)

\* an opcode no `if` of the chain tests for: the iteration only fetched it
Unhandled ==
    \E op \in (0..(ByteBase - 1)) \ Handled :
        /\ Fetch(op)
        /\ Continue(pc + 1, stack, <<>>)

\* the loop guard fails: EvmResult { stack, success: true }
Return ==
    /\ status = "running"
    /\ ~LoopGuard
    /\ result' = <<[stack |-> stack, success |-> TRUE]>>
    /\ status' = "returned"
    /\ UNCHANGED <<code, pc, stack, stop_flag, opcode, popped>>

Next ==
    \/ STOP \/ PUSH \/ POP
    \/ ADD \/ MUL \/ SUB \/ DIV \/ MOD \/ ADDMOD \/ MULMOD \/ EXP \/ SIGEXTEND
    \/ SDIV \/ SMOD
    \/ LT \/ GT \/ SLT \/ SGT \/ EQ \/ ISZERO
    \/ NOT \/ AND \/ OR \/ XOR
    \/ SHL \/ SHR \/ SAR
    \/ Unhandled
    \/ Return

----------------------------------------------------------------------------
(* The bytecodes the runs start from *)

\* longest bytecode of ByteCodes
MaxCodeLen == 4

\* operand words: small values, the byte boundary, the sign boundary, all ones
Values ==
    {0, 1, 2, 3, 7, ByteBase - 1, ByteBase,
     min_value - 1, min_value, min_value + 1, MaxWord - 1, MaxWord}

\* the full-width push of w: PUSH32 followed by the 32 bytes of w
PushWord(w) == <<\h5F + WordBytes>> \o to_big_endian(w)

RECURSIVE PushAll(_)
\* pushes ws[1] first, so the last word of ws ends on top
PushAll(ws) == IF Len(ws) = 0 THEN <<>> ELSE PushWord(ws[1]) \o PushAll(Tail(ws))

\* all sequences over S of length lo..hi
SeqsOf(S, lo, hi) == UNION {[1..n -> S] : n \in lo..hi}

\* words left below the operands
DeepWords == {<<>>, <<5, 9>>}

\* one- and two-operand opcodes, with the unassigned bytes between them
LowOps == (\h00..\h1F) \cup {\h50}

\* up to two operands, then any low opcode
BinaryCodes ==
    {PushAll(deep) \o PushAll(args) \o <<op>> :
        deep \in DeepWords, args \in SeqsOf(Values, 0, 2), op \in LowOps}

\* three operands, then a three-operand opcode
TernaryCodes ==
    {PushAll(deep) \o PushAll(args) \o <<op>> :
        deep \in DeepWords, args \in SeqsOf(Values, 3, 3), op \in {\h08, \h09}}

\* every byte as an opcode, on the empty stack and on a one-word stack
AnyOpcodeCodes ==
    {PushAll(args) \o <<op>> : args \in SeqsOf(Values, 0, 1), op \in 0..(ByteBase - 1)}

\* a PUSHk followed by 0..k+1 bytes: immediates cut short by the end of the code, and whole ones
PushCodes ==
    UNION {{<<\h5F + k>> \o imm : imm \in SeqsOf({\h00, \h01, \hAB}, 0, k + 1)} :
              k \in 1..WordBytes}

\* every bytecode up to MaxCodeLen over a few bytes
ByteCodes ==
    SeqsOf({\h00, \h01, \h04, \h50, \h5F, \h61, \h7F, \h80}, 0, MaxCodeLen)

CodeSet == BinaryCodes \cup TernaryCodes \cup AnyOpcodeCodes \cup PushCodes \cup ByteCodes

\* the state when the loop is first reached (lib.rs:26-33)
Init ==
    /\ code \in CodeSet
    /\ pc = 0
    /\ stack = <<>>
    /\ stop_flag = FALSE
    /\ opcode = -1
    /\ popped = <<>>
    /\ status = "running"
    /\ result = <<>>

Spec == Init /\ [][Next]_vars

----------------------------------------------------------------------------
(* Vocabulary of the properties *)

\* the iteration that starts in this state fetches byte op as its opcode
Decodes(op) == status = "running" /\ LoopGuard /\ code[pc + 1] = op

\* the words below the top k of the stack
Below(k) == SubSeq(stack, k + 1, Len(stack))

\* a word read as a two's-complement signed integer
Signed(w) == IF w >= 2 ^ (WordBits - 1) THEN w - 2 ^ WordBits ELSE w

\* the word that encodes the integer x
ToWord(x) == x % (2 ^ WordBits)

Abs(x) == IF x < 0 THEN -x ELSE x

\* signed quotient truncated toward zero, s # 0
TruncQuot(p, s) ==
    LET q == Abs(p) \div Abs(s)
    IN  IF (p < 0) # (s < 0) THEN -q ELSE q

RECURSIVE ProductModLoop(_, _, _, _)
\* (x * y + acc) mod n with x, acc < n: y is consumed four bits at a time from
\* its low end while x is scaled by 16
ProductModLoop(x, y, n, acc) ==
    IF y = 0 THEN acc
    ELSE ProductModLoop((16 * x) % n, y \div 16, n, (acc + (y % 16) * x) % n)

\* (x * y) mod n of the unbounded product, n > 0
ProductMod(x, y, n) == IF x = 0 \/ y = 0 THEN 0 ELSE ProductModLoop(x % n, y, n, 0)

\* b^r mod 2^WordBits for 0 <= r <= 15, from b, b^2, b^4 and b^8
SmallPower(b, r) ==
    LET M == 2 ^ WordBits
        b2 == ProductMod(b, b, M)
        b4 == ProductMod(b2, b2, M)
        b8 == ProductMod(b4, b4, M)
        Pick(bit, w) == IF (r \div bit) % 2 = 1 THEN w ELSE 1
    IN  ProductMod(ProductMod(Pick(1, b % M), Pick(2, b2), M),
                   ProductMod(Pick(4, b4), Pick(8, b8), M), M)

\* h^16 * b^r mod 2^WordBits
RaiseAndTimes(h, b, r) ==
    IF h = 0 THEN 0
    ELSE LET M == 2 ^ WordBits
             h2 == ProductMod(h, h, M)
             h4 == ProductMod(h2, h2, M)
             h8 == ProductMod(h4, h4, M)
             h16 == ProductMod(h8, h8, M)
         IN  ProductMod(h16, SmallPower(b, r), M)

RECURSIVE PowerMod(_, _)
\* b^e mod 2^WordBits: b^e = (b^(e div 16))^16 * b^(e mod 16)
PowerMod(b, e) ==
    IF e = 0 THEN 1 % (2 ^ WordBits)
    ELSE RaiseAndTimes(PowerMod(b, e \div 16), b, e % 16)

\* the operand count the specification gives each instruction
Arity(op) ==
    IF op \in {\h50, \h15, \h19} THEN 1
    ELSE IF op \in {\h08, \h09} THEN 3
    ELSE IF op \in (\h01..\h0B) \cup (\h10..\h18) \cup (\h1B..\h1D) THEN 2
    ELSE 0

\* the supported instructions as the specification lists them
SupportedOpcodes ==
    {\h00} \cup (\h01..\h0B) \cup (\h10..\h19) \cup (\h1B..\h1D) \cup {\h50} \cup (\h5F..\h7F)

----------------------------------------------------------------------------
(* Properties *)

TypeOK ==
    /\ pc \in Nat
    /\ \A i \in 1..Len(stack) : stack[i] \in 0..MaxWord
    /\ status \in {"running", "returned", "panicked"}

\* C1: an instruction dispatched with fewer words on the stack than its arity
\* halts the run without aborting it: the caller still gets a result, and that
\* result reports the fault instead of success.
C1_UnderflowIsReported ==
    [][\A op \in 0..(ByteBase - 1) :
          (Decodes(op) /\ Len(stack) < Arity(op))
              => /\ status' # "panicked"
                 /\ ~LoopGuard'
                 /\ (status' = "returned" => ~result'[1].success)]_vars

\* C2: ADDMOD pushes (A + B) mod N of the unreduced sum A + B (A on top, then B,
\* then N), and 0 when N = 0.
C2_AddmodUsesWideSum ==
    [][(Decodes(\h08) /\ Len(stack) >= 3)
          => LET A == stack[1]
                 B == stack[2]
                 N == stack[3]
             IN  stack' = <<IF N = 0 THEN 0 ELSE (A + B) % N>> \o Below(3)]_vars

\* C3: PUSHk (k up to the word's byte count) with only m < k bytes left pushes the
\* m bytes followed by k-m zero bytes, read big-endian; with all k bytes present
\* it pushes their big-endian value.
C3_PushZeroExtends ==
    [][\A k \in 1..WordBytes :
          Decodes(\h5F + k)
              => LET left == Len(code) - (pc + 1)
                     m == IF left < k THEN left ELSE k
                     imm == SubSeq(code, pc + 2, pc + 1 + m)
                 IN  stack' = <<FromBytes(imm) * ByteBase ^ (k - m)>> \o stack]_vars

\* C4 as stated: in every state 0 <= pc <= L, and pc never decreases.
C4_PcWithinCode ==
    /\ [](0 <= pc /\ pc <= Len(code))
    /\ [][pc' >= pc]_vars

\* C4 amended: pc never decreases, and it is within 0..L except after a PUSHk
\* whose immediate runs past the end of the code, where it is the position after
\* the opcode plus k (so at most L + 32).
C4_PcMonotoneUpToImmediate ==
    /\ [](0 <= pc /\ pc <= Len(code) + (\h7F - \h5F))
    /\ [][/\ pc' >= pc
          /\ (pc' # pc /\ pc' > Len(code))
                => (opcode' \in \h60..\h7F /\ pc' = pc + 1 + (opcode' - \h5F))]_vars

\* a PUSHk ran past the end of the code
C4_Witness ==
    /\ pc > Len(code)
    /\ opcode \in \h60..\h7F
    /\ status = "returned"

\* C5: decoding 0x00 sets the dispatcher to Halted with the stack unchanged; once
\* halted nothing is decoded any more, and the only step left returns exactly
\* the stack that stood before the STOP, whatever bytes follow it.
C5_StopHaltsWithStack ==
    [][/\ Decodes(\h00)
            => (stop_flag' /\ ~LoopGuard' /\ stack' = stack /\ status' = "running")
       /\ stop_flag
            => /\ status' = "returned"
               /\ result' = <<[stack |-> stack, success |-> TRUE]>>
               /\ UNCHANGED <<pc, stack, opcode, stop_flag>>]_vars

\* STOP after a push and before further bytes, and the run has returned
C5_Witness ==
    /\ status = "returned"
    /\ stop_flag
    /\ opcode = \h00
    /\ pc < Len(code)
    /\ Len(result[1].stack) >= 1

\* C6: a non-commutative binary instruction replaces P (top) and S (below it) by
\* operator(P, S) and leaves the deeper words alone: SUB P - S, DIV P / S, MOD,
\* LT P < S, GT, EXP P^S, and the shifts move the value S by the amount P.
C6_PrimaryThenSecondary ==
    [][Len(stack) >= 2
          => LET P == stack[1]
                 S == stack[2]
                 Pushes(w) == stack' = <<w>> \o Below(2)
             IN  /\ Decodes(\h03) => Pushes(ToWord(P - S))
                 /\ (Decodes(\h04) /\ S # 0) => Pushes(P \div S)
                 /\ (Decodes(\h06) /\ S # 0) => Pushes(P % S)
                 /\ Decodes(\h10) => Pushes(IF P < S THEN 1 ELSE 0)
                 /\ Decodes(\h11) => Pushes(IF P > S THEN 1 ELSE 0)
                 /\ Decodes(\h0A) => Pushes(PowerMod(P, S))
                 /\ Decodes(\h1B) =>
                        Pushes(IF P >= WordBits THEN 0
                               ELSE ProductMod(S, 2 ^ P, 2 ^ WordBits))
                 /\ Decodes(\h1C) =>
                        Pushes(IF P >= WordBits THEN 0 ELSE S \div 2 ^ P)
                 /\ Decodes(\h1D) =>
                        Pushes(IF P >= WordBits
                               THEN (IF Signed(S) < 0 THEN ToWord(-1) ELSE 0)
                               ELSE ToWord(Signed(S) \div 2 ^ P))]_vars

\* SUB has run with P < S (the difference wraps) above two deeper words
C6_Witness ==
    /\ opcode = \h03
    /\ status = "running"
    /\ Len(popped) = 2
    /\ popped[2] < popped[1]
    /\ Len(stack) = 3
    /\ stack[1] = ToWord(popped[2] - popped[1])

\* C7: MULMOD pushes ((A mod N) * (B mod N)) mod N of the unbounded product, a
\* word below N; and 0 when N = 0.
C7_MulmodIsExact ==
    [][(Decodes(\h09) /\ Len(stack) >= 3)
          => LET A == stack[1]
                 B == stack[2]
                 N == stack[3]
             IN  /\ stack' = <<IF N = 0 THEN 0 ELSE ProductMod(A % N, B % N, N)>> \o Below(3)
                 /\ N # 0 => stack'[1] < N]_vars

\* MULMOD has run with N # 0 on operands whose product does not fit a word
C7_Witness ==
    /\ opcode = \h09
    /\ status = "running"
    /\ Len(popped) = 3
    /\ popped[1] > 2
    /\ popped[2] > 0
    /\ popped[3] > MaxWord \div popped[2]
    /\ stack[1] # 0

\* C8: for S # 0, SDIV pushes the two's-complement word of the signed quotient of
\* P by S truncated toward zero; -2^255 / -1 gives the word 2^255.
C8_SdivTruncates ==
    [][(Decodes(\h05) /\ Len(stack) >= 2 /\ stack[2] # 0)
          => LET P == stack[1]
                 S == stack[2]
             IN  /\ stack' = <<ToWord(TruncQuot(Signed(P), Signed(S)))>> \o Below(2)
                 /\ (Signed(P) = -(2 ^ (WordBits - 1)) /\ Signed(S) = -1)
                        => stack'[1] = 2 ^ (WordBits - 1)]_vars

\* SDIV has run on the least signed value divided by -1
C8_Witness ==
    /\ opcode = \h05
    /\ status = "running"
    /\ popped = <<MaxWord, min_value>>
    /\ stack[1] = min_value

\* C9: DIV, MOD, SDIV and SMOD with secondary operand 0 push 0 for every
\* dividend, raise no fault and leave the loop running at the next byte.
C9_ZeroDivisorPushesZero ==
    [][\A op \in {\h04, \h06, \h05, \h07} :
          (Decodes(op) /\ Len(stack) >= 2 /\ stack[2] = 0)
              => /\ stack' = <<0>> \o Below(2)
                 /\ pc' = pc + 1
                 /\ status' = "running"
                 /\ ~stop_flag']_vars

\* SMOD has run on a negative dividend and divisor 0
C9_Witness ==
    /\ opcode = \h07
    /\ status = "running"
    /\ popped = <<0, MaxWord>>
    /\ stack = <<0>>

\* C10: a byte that is no supported instruction, decoded on any stack, leaves the
\* stack unchanged, advances pc by one, does not halt and does not fault.
C10_UnsupportedIsNoOp ==
    [][\A op \in (0..(ByteBase - 1)) \ SupportedOpcodes :
          Decodes(op)
              => /\ stack' = stack
                 /\ pc' = pc + 1
                 /\ ~stop_flag'
                 /\ status' = "running"]_vars

\* 0xFF has been decoded on the empty stack
C10_Witness ==
    /\ opcode = \hFF
    /\ status = "running"
    /\ stack = <<>>
    /\ pc = 1

====
